---------------------------- MODULE Spec2Model ----------------------------
(***************************************************************************)
(* A model of the oscal_types datatype library: validated wrappers around  *)
(* one scalar each, their validate / try_from / from_str / From / new      *)
(* paths, their serde decode and encode, and the type-name registry.       *)
(*                                                                         *)
(* A text is a sequence of characters.  A character is a one-character     *)
(* string; a character outside ASCII is written "U+XXXX".  Code(c) is its  *)
(* Unicode scalar value, which the character-class tests read.             *)
(***************************************************************************)
EXTENDS Integers, Sequences, FiniteSets, TLC

VARIABLES date_validation, op, ty, arg, res, inst, made

vars == <<date_validation, op, ty, arg, res, inst, made>>

(***************************************************************************)
(* Bounds of the model.                                                    *)
(***************************************************************************)
MaxLen == 3

MaxInt == 2

(***************************************************************************)
(* Characters.                                                             *)
(***************************************************************************)
LowerSeq == <<"a","b","c","d","e","f","g","h","i","j","k","l","m",
              "n","o","p","q","r","s","t","u","v","w","x","y","z">>

UpperSeq == <<"A","B","C","D","E","F","G","H","I","J","K","L","M",
              "N","O","P","Q","R","S","T","U","V","W","X","Y","Z">>

DigitSeq == <<"0","1","2","3","4","5","6","7","8","9">>

RangeOf(seq) == {seq[i] : i \in 1..Len(seq)}

IndexIn(seq, c) == CHOOSE i \in 1..Len(seq) : seq[i] = c

\* Each character that is no letter and no digit, with its scalar value.
OtherChars ==
    {<<"U+0009", 9>>, <<"U+000A", 10>>, <<"U+000D", 13>>, <<" ", 32>>,
     <<"!", 33>>, <<"#", 35>>, <<"$", 36>>, <<"%", 37>>, <<"&", 38>>,
     <<"'", 39>>, <<"(", 40>>, <<")", 41>>, <<"*", 42>>, <<"+", 43>>,
     <<",", 44>>, <<"-", 45>>, <<".", 46>>, <<"/", 47>>, <<":", 58>>,
     <<";", 59>>, <<"<", 60>>, <<"=", 61>>, <<">", 62>>, <<"?", 63>>,
     <<"@", 64>>, <<"[", 91>>, <<"]", 93>>, <<"^", 94>>, <<"_", 95>>,
     <<"{", 123>>, <<"|", 124>>, <<"}", 125>>,
     <<"~", 126>>, <<"U+00A0", 160>>, <<"U+00B7", 183>>,
     <<"U+00D7", 215>>, <<"U+00E9", 233>>, <<"U+0300", 768>>,
     <<"U+3000", 12288>>}

Code(c) ==
    IF c \in RangeOf(LowerSeq) THEN 96 + IndexIn(LowerSeq, c)
    ELSE IF c \in RangeOf(UpperSeq) THEN 64 + IndexIn(UpperSeq, c)
    ELSE IF c \in RangeOf(DigitSeq) THEN 47 + IndexIn(DigitSeq, c)
    ELSE (CHOOSE p \in OtherChars : p[1] = c)[2]

InRange(n, lo, hi) == lo <= n /\ n <= hi

IsDigit(c) == c \in RangeOf(DigitSeq)

IsHexDigit(c) ==
    \/ IsDigit(c)
    \/ c \in {"a","b","c","d","e","f","A","B","C","D","E","F"}

IsAlpha(c) == c \in RangeOf(LowerSeq) \cup RangeOf(UpperSeq)

(***************************************************************************)
(* Texts.                                                                  *)
(***************************************************************************)
Drop(s, n) == SubSeq(s, n + 1, Len(s))

Take(s, n) == SubSeq(s, 1, n)

AllChars(s, P(_)) == \A i \in 1..Len(s) : P(s[i])

(***************************************************************************)
(* Results: Ok(v) or Err(kind), kind a variant of the Error enum.          *)
(***************************************************************************)
Unit == <<>>

Ok(v) == [ok |-> TRUE, val |-> v, err |-> "none"]

Err(e) == [ok |-> FALSE, val |-> Unit, err |-> e]

\* An error that carries a payload, as UnrecognizedTypeName(name) does.
ErrWith(e, payload) == [ok |-> FALSE, val |-> payload, err |-> e]

\* match r { Ok(_) => Ok(v), Err(e) => Err(e) }, and the ? operator.
Wrap(r, v) == IF r.ok THEN Ok(v) ELSE Err(r.err)

(***************************************************************************)
(* nc_name.rs                                                              *)
(***************************************************************************)
\* The start characters of an XML Name, the colon among them, in place of
\* those of an NCName.
is_valid_start_char_colon(c) ==
    LET n == Code(c) IN
    \/ n = 58
    \/ InRange(n, 97, 122) \/ InRange(n, 65, 90) \/ n = 95
    \/ InRange(n, 192, 214) \/ InRange(n, 216, 246) \/ InRange(n, 248, 767)
    \/ InRange(n, 880, 893) \/ InRange(n, 895, 8191)
    \/ InRange(n, 8204, 8205) \/ InRange(n, 8304, 8591)
    \/ InRange(n, 11264, 12271) \/ InRange(n, 12289, 55295)
    \/ InRange(n, 63744, 64975) \/ InRange(n, 65008, 65533)
    \/ InRange(n, 65536, 983039)

is_valid_start_char(c) ==
    LET n == Code(c) IN
    \/ InRange(n, 97, 122) \/ InRange(n, 65, 90) \/ n = 95
    \/ InRange(n, 192, 214) \/ InRange(n, 216, 246) \/ InRange(n, 248, 767)
    \/ InRange(n, 880, 893) \/ InRange(n, 895, 8191)
    \/ InRange(n, 8204, 8205) \/ InRange(n, 8304, 8591)
    \/ InRange(n, 11264, 12271) \/ InRange(n, 12289, 55295)
    \/ InRange(n, 63744, 64975) \/ InRange(n, 65008, 65533)
    \/ InRange(n, 65536, 983039)

is_valid_char(c) ==
    LET n == Code(c) IN
    \/ InRange(n, 97, 122) \/ InRange(n, 65, 90) \/ n = 95
    \/ n = 45 \/ n = 46 \/ n = 183 \/ InRange(n, 48, 57)
    \/ InRange(n, 192, 214) \/ InRange(n, 216, 246) \/ InRange(n, 248, 767)
    \/ InRange(n, 768, 893) \/ InRange(n, 895, 8191)
    \/ InRange(n, 8204, 8205) \/ InRange(n, 8255, 8256)
    \/ InRange(n, 8304, 8591) \/ InRange(n, 11264, 12271)
    \/ InRange(n, 12289, 55295) \/ InRange(n, 63744, 64975)
    \/ InRange(n, 65008, 65533) \/ InRange(n, 65536, 983039)

\* The loop of new_if_valid from position i on, `first` as the loop holds it.
RECURSIVE nc_scan(_, _, _)
nc_scan(value, i, first) ==
    IF i > Len(value) THEN Ok(value)
    ELSE IF first
         THEN IF ~is_valid_start_char(value[i])
              THEN Err("NCNameIllegalFirstChar")
              ELSE nc_scan(value, i + 1, FALSE)
         ELSE IF ~is_valid_char(value[i])
              THEN Err("NCNameIllegalChar")
              ELSE nc_scan(value, i + 1, first)

\* The loop with the assignment first = false left out.
RECURSIVE nc_scan_first_stuck(_, _)
nc_scan_first_stuck(value, i) ==
    IF i > Len(value) THEN Ok(value)
    ELSE IF ~is_valid_start_char(value[i])
         THEN Err("NCNameIllegalFirstChar")
         ELSE nc_scan_first_stuck(value, i + 1)

NCName_new_if_valid_first_stuck(value) == nc_scan_first_stuck(value, 1)

\* new_if_valid with the empty name refused before the loop.
NCName_new_if_valid_non_empty(value) ==
    IF Len(value) = 0 THEN Err("NCNameIllegalFirstChar")
    ELSE nc_scan(value, 1, TRUE)

NCName_new_if_valid(value) == nc_scan(value, 1, TRUE)

NCName_try_from(value) == NCName_new_if_valid(value)

NCName_from_str(s) == NCName_new_if_valid(s)


(***************************************************************************)
(* Library functions of std the validators call.                           *)
(***************************************************************************)
\* char::is_whitespace: the Unicode White_Space property.
is_whitespace(c) ==
    LET n == Code(c) IN
    \/ InRange(n, 9, 13) \/ n = 32 \/ n = 133 \/ n = 160 \/ n = 5760
    \/ InRange(n, 8192, 8202) \/ n = 8232 \/ n = 8233 \/ n = 8239
    \/ n = 8287 \/ n = 12288

RECURSIVE trim_start(_)
trim_start(s) ==
    IF Len(s) > 0 /\ is_whitespace(s[1]) THEN trim_start(Drop(s, 1)) ELSE s

RECURSIVE trim_end(_)
trim_end(s) ==
    IF Len(s) > 0 /\ is_whitespace(s[Len(s)])
    THEN trim_end(Take(s, Len(s) - 1))
    ELSE s

\* A trim that forgets the end of the text.
trim_leading_only(s) == trim_start(s)

\* str::trim
trim(s) == trim_end(trim_start(s))

\* The pieces of s between occurrences of the character sep.
RECURSIVE SplitFrom(_, _, _, _)
SplitFrom(s, sep, i, cur) ==
    IF i > Len(s) THEN <<cur>>
    ELSE IF s[i] = sep THEN <<cur>> \o SplitFrom(s, sep, i + 1, <<>>)
    ELSE SplitFrom(s, sep, i + 1, Append(cur, s[i]))

Split(s, sep) == SplitFrom(s, sep, 1, <<>>)

\* The value of a non-empty run of decimal digits.
RECURSIVE ParseNat(_)
ParseNat(d) ==
    IF Len(d) = 0 THEN 0
    ELSE 10 * ParseNat(Take(d, Len(d) - 1)) + (IndexIn(DigitSeq, d[Len(d)]) - 1)

\* One dotted-quad octet: 1 to 3 digits, no leading zero, at most 255.
IsOctet(g) ==
    /\ Len(g) > 0 /\ AllChars(g, IsDigit) /\ Len(g) <= 3
    /\ (Len(g) > 1 => g[1] # "0")
    /\ ParseNat(g) <= 255

\* str::parse::<Ipv4Addr>
ParsesIpv4(s) ==
    LET g == Split(s, ".") IN
    Len(g) = 4 /\ \A i \in 1..4 : IsOctet(g[i])

IsHexGroup(g) == InRange(Len(g), 1, 4) /\ AllChars(g, IsHexDigit)

\* The number of 16-bit groups a colon-separated run stands for, or -1 when
\* it is malformed; only its last piece may be a dotted quad.
GroupCount(s) ==
    IF Len(s) = 0 THEN 0
    ELSE LET g == Split(s, ":")
             n == Len(g)
         IN  IF /\ \A i \in 1..(n - 1) : IsHexGroup(g[i])
                /\ (IsHexGroup(g[n]) \/ ParsesIpv4(g[n]))
             THEN IF IsHexGroup(g[n]) THEN n ELSE n + 1
             ELSE -1

DoubleColonAt(s) == {i \in 1..(Len(s) - 1) : s[i] = ":" /\ s[i + 1] = ":"}

\* str::parse::<Ipv6Addr>
ParsesIpv6(s) ==
    LET dc == DoubleColonAt(s) IN
    IF dc = {} THEN GroupCount(s) = 8
    ELSE LET i == CHOOSE j \in dc : \A k \in dc : j <= k
             head == GroupCount(Take(s, i - 1))
             tail == GroupCount(Drop(s, i + 1))
         IN  head >= 0 /\ tail >= 0 /\ head + tail <= 7

(***************************************************************************)
(* strings.rs: the validate of each string datatype.                       *)
(***************************************************************************)
Base64Datatype_validate(value) == Ok(Unit)

StringDatatype_validate(value) ==
    IF trim(value) = value THEN Ok(Unit) ELSE Err("StringParse")

EmailAddressDatatype_validate_pattern(value) ==
    IF \E i \in 2..(Len(value) - 1) : value[i] = "@"
    THEN Ok(Unit)
    ELSE Err("StringParse")

EmailAddressDatatype_validate(value) == Ok(Unit)

HostnameDatatype_validate(value) == Ok(Unit)

IPV4AddressDatatype_validate(value) ==
    IF ParsesIpv4(value) THEN Ok(Unit) ELSE Err("AddressParse")

IPV6AddressDatatype_validate(value) ==
    IF ParsesIpv6(value) THEN Ok(Unit) ELSE Err("AddressParse")

MarkupLineDatatype_validate(value) == Ok(Unit)

MarkupMultilineDatatype_validate(value) == Ok(Unit)

\* A token validate with a rule of its own: the pattern's digits are kept
\* out of the name.
TokenDatatype_validate_no_digit(value) ==
    LET r == NCName_try_from(value) IN
    IF ~r.ok THEN r
    ELSE IF \E i \in 1..Len(value) : IsDigit(value[i])
         THEN Err("NCNameIllegalChar")
         ELSE Ok(Unit)

\* NCName::try_from(value).map(|_| ())
TokenDatatype_validate(value) == Wrap(NCName_try_from(value), Unit)

(***************************************************************************)
(* token.rs: the TokenDatatype that wraps an NCName.                       *)
(***************************************************************************)
\* Ok(Self(NCName::try_from(value)?))
Token_new_if_valid(value) == Wrap(NCName_try_from(value), value)

Token_from_str(s) == Wrap(NCName_try_from(s), s)

Token_try_from(value) == Token_new_if_valid(value)

(***************************************************************************)
(* dates.rs.  The chrono and iso8601_duration parsers are read through the *)
(* calls the validators make; the grammars below are the ones those calls  *)
(* accept, without chrono's tolerance for blanks and for a signed year,    *)
(* and with whole-number duration components.                              *)
(***************************************************************************)
\* The number of digits of s from position i on, at most w.
RECURSIVE NumAt(_, _, _)
NumAt(s, i, w) ==
    IF w = 0 \/ i > Len(s) \/ ~IsDigit(s[i]) THEN 0
    ELSE 1 + NumAt(s, i + 1, w - 1)

CharAt(s, i, c) == i <= Len(s) /\ s[i] = c

DaysInMonth(y, m) ==
    IF m = 2
    THEN (IF (y % 4 = 0 /\ y % 100 # 0) \/ y % 400 = 0 THEN 29 ELSE 28)
    ELSE IF m \in {4, 6, 9, 11} THEN 30 ELSE 31

\* A field of 1 to w digits at position i: its value and the next position,
\* next = 0 when there is no digit.
Field(s, i, w) ==
    LET k == NumAt(s, i, w) IN
    IF k = 0 THEN [val |-> 0, next |-> 0]
    ELSE [val |-> ParseNat(SubSeq(s, i, i + k - 1)), next |-> i + k]

\* Year "-" month "-" day from position 1: the position after the day, or 0
\* when the text does not start with a date of the calendar.
DateEnd(s) ==
    LET y == Field(s, 1, 4) IN
    IF y.next = 0 \/ ~CharAt(s, y.next, "-") THEN 0
    ELSE LET m == Field(s, y.next + 1, 2) IN
         IF m.next = 0 \/ ~CharAt(s, m.next, "-") THEN 0
         ELSE LET d == Field(s, m.next + 1, 2) IN
              IF /\ d.next # 0
                 /\ InRange(m.val, 1, 12)
                 /\ InRange(d.val, 1, DaysInMonth(y.val, m.val))
              THEN d.next
              ELSE 0

\* str::parse::<NaiveDate>
ParsesNaiveDate(s) == DateEnd(s) = Len(s) + 1

\* Hour ":" minute ":" second and an optional fraction from position i: the
\* position after the time, or 0.
TimeEnd(s, i) ==
    LET h == Field(s, i, 2) IN
    IF h.next = 0 \/ h.val > 23 \/ ~CharAt(s, h.next, ":") THEN 0
    ELSE LET m == Field(s, h.next + 1, 2) IN
         IF m.next = 0 \/ m.val > 59 \/ ~CharAt(s, m.next, ":") THEN 0
         ELSE LET sec == Field(s, m.next + 1, 2) IN
              IF sec.next = 0 \/ sec.val > 60 THEN 0
              ELSE IF CharAt(s, sec.next, ".")
                   THEN LET k == NumAt(s, sec.next + 1, Len(s)) IN
                        IF k = 0 THEN 0 ELSE sec.next + 1 + k
                   ELSE sec.next

\* "Z", "z" or a signed hh:mm offset, filling the text from position i on.
IsOffsetFrom(s, i) ==
    \/ i = Len(s) /\ s[i] \in {"Z", "z"}
    \/ /\ i + 5 = Len(s)
       /\ s[i] \in {"+", "-"}
       /\ NumAt(s, i + 1, 2) = 2
       /\ s[i + 3] = ":"
       /\ NumAt(s, i + 4, 2) = 2
       /\ ParseNat(SubSeq(s, i + 1, i + 2)) <= 23
       /\ ParseNat(SubSeq(s, i + 4, i + 5)) <= 59

\* str::parse::<DateTime<Utc>>: a date, a separator, a time and an offset.
ParsesDateTimeUtc(s) ==
    LET d == DateEnd(s) IN
    /\ d # 0
    /\ d <= Len(s) /\ s[d] \in {"T", "t", " "}
    /\ LET t == TimeEnd(s, d + 1) IN
       t # 0 /\ t <= Len(s) /\ IsOffsetFrom(s, t)

\* str::parse::<NaiveDateTime>: a date, "T" and a time, and nothing after.
ParsesNaiveDateTime(s) ==
    LET d == DateEnd(s) IN
    /\ d # 0
    /\ CharAt(s, d, "T")
    /\ TimeEnd(s, d + 1) = Len(s) + 1

DateDatatype_validate(value, feature) ==
    IF feature
    THEN IF ParsesNaiveDate(value) THEN Ok(Unit) ELSE Err("DateParse")
    ELSE Ok(Unit)

DateTimeDatatype_validate(value, feature) ==
    IF feature
    THEN IF ParsesDateTimeUtc(value) THEN Ok(Unit)
         ELSE IF ParsesNaiveDateTime(value) THEN Ok(Unit)
         ELSE Err("DateParse")
    ELSE Ok(Unit)

\* A timezone-mandatory validate that falls back to the naive parse as
\* DateTimeDatatype does.
DateTimeWithTimezoneDatatype_validate_fallback(value) ==
    DateTimeDatatype_validate(value, TRUE)

\* A timezone-mandatory validate behind the feature test of its two
\* neighbours.
DateTimeWithTimezoneDatatype_validate_gated(value) ==
    IF date_validation
    THEN IF ParsesDateTimeUtc(value) THEN Ok(Unit) ELSE Err("DateParse")
    ELSE Ok(Unit)

DateTimeWithTimezoneDatatype_validate(value) ==
    IF ParsesDateTimeUtc(value) THEN Ok(Unit) ELSE Err("DateParse")

\* One duration component at position i: digits followed by the designator
\* unit.  An absent component leaves the position where it was.
Component(s, i, unit) ==
    LET k == NumAt(s, i, Len(s)) IN
    IF k > 0 /\ CharAt(s, i + k, unit)
    THEN [val |-> ParseNat(SubSeq(s, i, i + k - 1)), next |-> i + k + 1]
    ELSE [val |-> 0, next |-> i]

NoDuration ==
    [ok |-> FALSE, year |-> 0, month |-> 0, day |-> 0,
     hour |-> 0, minute |-> 0, second |-> 0]

\* str::parse::<Duration>: "P", then years, months and days, then an
\* optional "T" with hours, minutes and seconds; the whole text is consumed.
ParseDuration(s) ==
    IF ~CharAt(s, 1, "P") THEN NoDuration
    ELSE LET y == Component(s, 2, "Y")
             mo == Component(s, y.next, "M")
             d == Component(s, mo.next, "D")
             hasT == CharAt(s, d.next, "T")
             h == Component(s, d.next + 1, "H")
             mi == Component(s, h.next, "M")
             sec == Component(s, mi.next, "S")
             last == IF hasT THEN sec.next ELSE d.next
         IN  IF last # Len(s) + 1 THEN NoDuration
             ELSE [ok |-> TRUE, year |-> y.val, month |-> mo.val,
                   day |-> d.val,
                   hour |-> IF hasT THEN h.val ELSE 0,
                   minute |-> IF hasT THEN mi.val ELSE 0,
                   second |-> IF hasT THEN sec.val ELSE 0]

\* Duration::num_days is None when the duration has years or months.
num_days_is_some(d) == ~(d.month > 0 \/ d.year > 0)

\* Duration::num_months is None when the duration has hours, minutes or
\* seconds; it does not look at the days.
num_months_is_some(d) == ~(d.second > 0 \/ d.minute > 0 \/ d.hour > 0)

DayTimeDurationDatatype_validate(value) ==
    LET d == ParseDuration(value) IN
    IF ~d.ok THEN Err("DurationParse")
    ELSE IF num_days_is_some(d) THEN Ok(Unit) ELSE Err("DurationParse")

YearMonthDurationDatatype_validate(value) ==
    LET d == ParseDuration(value) IN
    IF ~d.ok THEN Err("DurationParse")
    ELSE IF num_months_is_some(d) THEN Ok(Unit) ELSE Err("DurationParse")

(***************************************************************************)
(* uris.rs.  fluent_uri's parser is read through the calls made: the       *)
(* RFC 3986 URI-reference grammar over scheme, path, query and fragment    *)
(* (an authority is read as path characters, so a bracketed IP literal is  *)
(* not accepted here).                                                     *)
(***************************************************************************)
IsUnreserved(c) == IsAlpha(c) \/ IsDigit(c) \/ c \in {"-", ".", "_", "~"}

IsSubDelim(c) == c \in {"!", "$", "&", "'", "(", ")", "*", "+", ",", ";", "="}

IsPathChar(c) ==
    IsUnreserved(c) \/ IsSubDelim(c) \/ c \in {":", "@", "/", "%"}

IsQueryChar(c) == IsPathChar(c) \/ c = "?"

\* The first position of character c in s, or 0.
FirstPos(s, c) ==
    IF \E i \in 1..Len(s) : s[i] = c
    THEN CHOOSE i \in 1..Len(s) : s[i] = c /\ \A j \in 1..(i - 1) : s[j] # c
    ELSE 0

\* Every "%" is followed by two hexadecimal digits.
PctEncodedOk(s) ==
    \A i \in 1..Len(s) :
        s[i] = "%" =>
            /\ i + 2 <= Len(s)
            /\ IsHexDigit(s[i + 1])
            /\ IsHexDigit(s[i + 2])

IsScheme(s) ==
    /\ Len(s) > 0
    /\ IsAlpha(s[1])
    /\ \A i \in 1..Len(s) :
          IsAlpha(s[i]) \/ IsDigit(s[i]) \/ s[i] \in {"+", "-", "."}

\* str::parse::<Uri<String>>
ParseUri(s) ==
    LET hash == FirstPos(s, "#")
        main == IF hash = 0 THEN s ELSE Take(s, hash - 1)
        frag == IF hash = 0 THEN <<>> ELSE Drop(s, hash)
        q == FirstPos(main, "?")
        hier == IF q = 0 THEN main ELSE Take(main, q - 1)
        query == IF q = 0 THEN <<>> ELSE Drop(main, q)
        colon == FirstPos(hier, ":")
        slash == FirstPos(hier, "/")
        inFirstSegment == colon # 0 /\ (slash = 0 \/ colon < slash)
        scheme == inFirstSegment /\ IsScheme(Take(hier, colon - 1))
    IN  IF /\ PctEncodedOk(s)
           /\ AllChars(hier, IsPathChar)
           /\ AllChars(query, IsQueryChar)
           /\ AllChars(frag, IsQueryChar)
           /\ (inFirstSegment => scheme)
        THEN [ok |-> TRUE, has_scheme |-> scheme, has_fragment |-> hash # 0]
        ELSE [ok |-> FALSE, has_scheme |-> FALSE, has_fragment |-> FALSE]

\* Uri::is_absolute_uri: a scheme and no fragment.
is_absolute_uri(u) == u.has_scheme /\ ~u.has_fragment

\* A URI validate without the check that the URI is absolute.
URIDatatype_validate_any(value) ==
    IF ~ParseUri(value).ok THEN Err("UriParse") ELSE Ok(Unit)

URIDatatype_validate(value) ==
    LET uri == ParseUri(value) IN
    IF ~uri.ok THEN Err("UriParse")
    ELSE IF is_absolute_uri(uri) THEN Ok(Unit) ELSE Err("UriAbsolute")

URIDatatype_try_from(value) == Wrap(URIDatatype_validate(value), value)

URIDatatype_from_str(s) == URIDatatype_try_from(s)

URIReferenceDatatype_validate(value) ==
    IF ~ParseUri(value).ok THEN Err("UriParse") ELSE Ok(Unit)

URIReferenceDatatype_try_from(value) ==
    Wrap(URIReferenceDatatype_validate(value), value)

URIReferenceDatatype_from_str(s) == URIReferenceDatatype_try_from(s)

(***************************************************************************)
(* uuid.rs.  Uuid::parse_str accepts the simple, hyphenated, braced and    *)
(* URN forms; Uuid's to_string is the lower-case hyphenated form.          *)
(***************************************************************************)
LowerText(s) ==
    [i \in 1..Len(s) |->
        IF s[i] \in RangeOf(UpperSeq) THEN LowerSeq[IndexIn(UpperSeq, s[i])]
        ELSE s[i]]

IsHyphenatedUuid(s) ==
    /\ Len(s) = 36
    /\ \A i \in 1..36 :
          IF i \in {9, 14, 19, 24} THEN s[i] = "-" ELSE IsHexDigit(s[i])

UrnPrefix == <<"u", "r", "n", ":", "u", "u", "i", "d", ":">>

\* The 32 hexadecimal digits the text denotes, or <<>> when it is no UUID.
UuidDigits(s) ==
    LET hy == IF IsHyphenatedUuid(s) THEN s
              ELSE IF Len(s) = 38 /\ s[1] = "{" /\ s[38] = "}"
                      /\ IsHyphenatedUuid(SubSeq(s, 2, 37))
                   THEN SubSeq(s, 2, 37)
              ELSE IF Len(s) >= Len(UrnPrefix)
                      /\ Take(s, Len(UrnPrefix)) = UrnPrefix
                      /\ IsHyphenatedUuid(Drop(s, Len(UrnPrefix)))
                   THEN Drop(s, Len(UrnPrefix))
              ELSE <<>>
    IN  IF Len(s) = 32 /\ AllChars(s, IsHexDigit) THEN s
        ELSE IF hy = <<>> THEN <<>>
        ELSE SubSeq(hy, 1, 8) \o SubSeq(hy, 10, 13) \o SubSeq(hy, 15, 18)
             \o SubSeq(hy, 20, 23) \o SubSeq(hy, 25, 36)

\* Uuid::parse_str
ParsesUuid(s) == UuidDigits(s) # <<>>

\* Uuid::to_string of 32 hexadecimal digits.
Uuid_to_string(d) ==
    LowerText(SubSeq(d, 1, 8) \o <<"-">> \o SubSeq(d, 9, 12) \o <<"-">>
              \o SubSeq(d, 13, 16) \o <<"-">> \o SubSeq(d, 17, 20) \o <<"-">>
              \o SubSeq(d, 21, 32))

\* A UUID validate that knows the hyphenated form only.
UUIDDatatype_validate_hyphenated_only(value) ==
    IF IsHyphenatedUuid(value) THEN Ok(Unit) ELSE Err("UuidParse")

UUIDDatatype_validate(value) ==
    IF ParsesUuid(value) THEN Ok(Unit) ELSE Err("UuidParse")

\* A UUID try_from that stores the text it was given.
UUIDDatatype_try_from_raw(value) == Wrap(UUIDDatatype_validate(value), value)

UUIDDatatype_try_from(value) ==
    IF ParsesUuid(value) THEN Ok(Uuid_to_string(UuidDigits(value)))
    ELSE Err("UuidParse")

\* Self(Uuid::new_v4().to_string()), random being the 32 digits drawn.
UUIDDatatype_new(random) == Uuid_to_string(random)

(***************************************************************************)
(* serde_json, as the library calls it: the scalars of a document, the     *)
(* parse of a number token and the rendering of a number.                  *)
(*                                                                         *)
(* A scalar is [kind, text]: a string (text is its content), a number or   *)
(* a boolean (text is the token) or null.  An f64 is [cls, neg, mant, exp] *)
(* with cls "finite" (the value mant * 10^exp, mant without a trailing     *)
(* zero), "nan" or "inf".                                                  *)
(***************************************************************************)
Scalar(k, t) == [kind |-> k, text |-> t]

TrueText == <<"t", "r", "u", "e">>

FalseText == <<"f", "a", "l", "s", "e">>

NullText == <<"n", "u", "l", "l">>

JsonSpaces == {" ", "U+0009", "U+000A", "U+000D"}

RECURSIVE SkipJsonSpace(_)
SkipJsonSpace(s) ==
    IF Len(s) > 0 /\ s[1] \in JsonSpaces THEN SkipJsonSpace(Drop(s, 1))
    ELSE IF Len(s) > 0 /\ s[Len(s)] \in JsonSpaces
         THEN SkipJsonSpace(Take(s, Len(s) - 1))
    ELSE s

Finite(neg, mant, exp) ==
    [cls |-> "finite", neg |-> neg, mant |-> mant, exp |-> exp]

Infinity(neg) == [cls |-> "inf", neg |-> neg, mant |-> 0, exp |-> 0]

\* mant * 10^exp with the trailing zeros of mant moved into exp.
RECURSIVE Normal(_, _, _)
Normal(neg, mant, exp) ==
    IF mant = 0 THEN Finite(neg, 0, 0)
    ELSE IF mant % 10 = 0 THEN Normal(neg, mant \div 10, exp + 1)
    ELSE Finite(neg, mant, exp)

\* f64's ==
f64_eq(a, b) ==
    /\ a.cls # "nan" /\ b.cls # "nan"
    /\ a.cls = b.cls
    /\ \/ a.cls = "finite" /\ a.mant = 0 /\ b.mant = 0
       \/ a.neg = b.neg /\ a.mant = b.mant /\ a.exp = b.exp

\* The JSON number grammar: -? (0 | [1-9][0-9]*) (. [0-9]+)? ([eE] [+-]? [0-9]+)?
ParseJsonNumber(s) ==
    LET neg == CharAt(s, 1, "-")
        i0 == IF neg THEN 2 ELSE 1
        ni == NumAt(s, i0, Len(s))
        i1 == i0 + ni
        hasFrac == CharAt(s, i1, ".")
        nf == IF hasFrac THEN NumAt(s, i1 + 1, Len(s)) ELSE 0
        i2 == IF hasFrac THEN i1 + 1 + nf ELSE i1
        hasExp == i2 <= Len(s) /\ s[i2] \in {"e", "E"}
        signed == hasExp /\ i2 + 1 <= Len(s) /\ s[i2 + 1] \in {"+", "-"}
        i3 == IF ~hasExp THEN i2 ELSE IF signed THEN i2 + 2 ELSE i2 + 1
        ne == IF hasExp THEN NumAt(s, i3, Len(s)) ELSE 0
    IN  IF /\ ni > 0
           /\ (ni > 1 => s[i0] # "0")
           /\ (hasFrac => nf > 0)
           /\ (hasExp => ne > 0)
           /\ i3 + ne = Len(s) + 1
        THEN [ok |-> TRUE, neg |-> neg,
              int |-> SubSeq(s, i0, i1 - 1),
              frac |-> IF hasFrac THEN SubSeq(s, i1 + 1, i2 - 1) ELSE <<>>,
              hasExp |-> hasExp,
              expNeg |-> signed /\ s[i2 + 1] = "-",
              exp |-> IF hasExp THEN SubSeq(s, i3, i3 + ne - 1) ELSE <<>>]
        ELSE [ok |-> FALSE, neg |-> FALSE, int |-> <<>>, frac |-> <<>>,
              hasExp |-> FALSE, expNeg |-> FALSE, exp |-> <<>>]

\* serde_json reads a token with a fraction or an exponent, and "-0", as a
\* float; any other token as an integer.
IsFloatToken(n) ==
    n.frac # <<>> \/ n.hasExp \/ (n.neg /\ ParseNat(n.int) = 0)

NumberAsF64(n) ==
    LET e == IF n.hasExp
             THEN (IF n.expNeg THEN 0 - ParseNat(n.exp) ELSE ParseNat(n.exp))
             ELSE 0
        f == Normal(n.neg, ParseNat(n.int \o n.frac), e - Len(n.frac))
    IN  f

\* The decimal digits of a natural number.
RECURSIVE NatText(_)
NatText(n) ==
    IF n < 10 THEN <<DigitSeq[n + 1]>>
    ELSE Append(NatText(n \div 10), DigitSeq[(n % 10) + 1])

\* The digits of n, zero-padded on the left to width w.
RECURSIVE Pad(_, _)
Pad(t, w) == IF Len(t) >= w THEN t ELSE Pad(<<"0">> \o t, w)

Zeros(k) == [i \in 1..k |-> "0"]

IntText(i) == IF i < 0 THEN <<"-">> \o NatText(0 - i) ELSE NatText(i)

\* serde_json's rendering of an f64: the shortest digits, always with a
\* fraction or an exponent; a value that is not finite renders as null.
F64Text(f) ==
    IF f.cls # "finite" THEN NullText
    ELSE LET d == NatText(f.mant)
             k == Len(d)
             kk == k + f.exp
             sign == IF f.neg THEN <<"-">> ELSE <<>>
         IN  sign \o
             (IF 0 <= f.exp /\ kk <= 16 THEN d \o Zeros(f.exp) \o <<".", "0">>
              ELSE IF 0 < kk /\ kk <= 16
                   THEN Take(d, kk) \o <<".">> \o Drop(d, kk)
              ELSE IF -5 < kk /\ kk <= 0
                   THEN <<"0", ".">> \o Zeros(0 - kk) \o d
              ELSE Take(d, 1)
                   \o (IF k > 1 THEN <<".">> \o Drop(d, 1) ELSE <<>>)
                   \o <<"e">> \o IntText(kk - 1))

\* f64's Display, which to_string uses: the shortest digits, no exponent,
\* and no fraction when the value is whole.
F64Display(f) ==
    IF f.cls = "nan" THEN <<"N", "a", "N">>
    ELSE IF f.cls = "inf"
         THEN (IF f.neg THEN <<"-">> ELSE <<>>) \o <<"i", "n", "f">>
    ELSE LET d == NatText(f.mant)
             kk == Len(d) + f.exp
             sign == IF f.neg THEN <<"-">> ELSE <<>>
         IN  sign \o
             (IF 0 <= f.exp THEN d \o Zeros(f.exp)
              ELSE IF 0 < kk THEN Take(d, kk) \o <<".">> \o Drop(d, kk)
              ELSE <<"0", ".">> \o Zeros(0 - kk) \o d)

(***************************************************************************)
(* boolean.rs                                                              *)
(***************************************************************************)
\* serde_json::from_str::<bool>(value)
BooleanDatatype_validate(value) ==
    IF SkipJsonSpace(value) \in {TrueText, FalseText} THEN Ok(Unit)
    ELSE Err("BooleanParse")

BooleanDatatype_from(value) == value

BooleanDatatype_try_from(value) == Ok(value)

(***************************************************************************)
(* numbers.rs                                                              *)
(***************************************************************************)
DecimalDatatype_from(value) == value

DecimalDatatype_try_from(value) == Ok(value)

IntegerDatatype_from(value) == value

IntegerDatatype_try_from(value) == Ok(value)

NonNegativeIntegerDatatype_from(value) == value

NonNegativeIntegerDatatype_try_from(value) == Ok(value)

PositiveIntegerDatatype_from(value) == value

PositiveIntegerDatatype_try_from_min(value) ==
    IF value >= 1 THEN Ok(value) ELSE Err("Minimum")

PositiveIntegerDatatype_try_from(value) == Ok(value)

\* NumberType::minimum and DecimalType::minimum of each numeric type, an
\* Option<i64> (Option<f64> for the decimal) as the set of at most one
\* value: the trait's default is None, and the two unsigned types override
\* it.
minimum(t) ==
    CASE t = "NonNegativeIntegerDatatype" -> {0}
      [] t = "PositiveIntegerDatatype" -> {1}
      [] OTHER -> {}

\* NumberType::maximum and DecimalType::maximum: no type overrides the
\* default None.
maximum(t) == {}

(***************************************************************************)
(* The datatypes, by the name the registry knows them under.  The          *)
(* TokenDatatype of token.rs, which wraps an NCName, is written            *)
(* "token::TokenDatatype".                                                 *)
(***************************************************************************)
StringImplTypes ==
    {"Base64Datatype", "StringDatatype", "EmailAddressDatatype",
     "HostnameDatatype", "IPV4AddressDatatype", "IPV6AddressDatatype",
     "MarkupLineDatatype", "MarkupMultilineDatatype", "TokenDatatype",
     "DateDatatype", "DateTimeDatatype", "DateTimeWithTimezoneDatatype",
     "DayTimeDurationDatatype", "YearMonthDurationDatatype"}

UriTypes == {"URIDatatype", "URIReferenceDatatype"}

NameTypes == {"NCName", "token::TokenDatatype"}

StringBackedTypes ==
    StringImplTypes \cup UriTypes \cup {"UUIDDatatype"} \cup NameTypes

UnsignedTypes == {"NonNegativeIntegerDatatype", "PositiveIntegerDatatype"}

ScalarTypes ==
    {"BooleanDatatype", "DecimalDatatype", "IntegerDatatype"} \cup UnsignedTypes

AllTypes == StringBackedTypes \cup ScalarTypes

\* The types that implement Validate.
ValidateTypes ==
    StringImplTypes \cup UriTypes \cup {"UUIDDatatype", "BooleanDatatype"}

\* T::validate(value)
Validate(t, value) ==
    CASE t = "Base64Datatype" -> Base64Datatype_validate(value)
      [] t = "StringDatatype" -> StringDatatype_validate(value)
      [] t = "EmailAddressDatatype" -> EmailAddressDatatype_validate(value)
      [] t = "HostnameDatatype" -> HostnameDatatype_validate(value)
      [] t = "IPV4AddressDatatype" -> IPV4AddressDatatype_validate(value)
      [] t = "IPV6AddressDatatype" -> IPV6AddressDatatype_validate(value)
      [] t = "MarkupLineDatatype" -> MarkupLineDatatype_validate(value)
      [] t = "MarkupMultilineDatatype" ->
            MarkupMultilineDatatype_validate(value)
      [] t = "TokenDatatype" -> TokenDatatype_validate(value)
      [] t = "DateDatatype" -> DateDatatype_validate(value, date_validation)
      [] t = "DateTimeDatatype" ->
            DateTimeDatatype_validate(value, date_validation)
      [] t = "DateTimeWithTimezoneDatatype" ->
            DateTimeWithTimezoneDatatype_validate(value)
      [] t = "DayTimeDurationDatatype" ->
            DayTimeDurationDatatype_validate(value)
      [] t = "YearMonthDurationDatatype" ->
            YearMonthDurationDatatype_validate(value)
      [] t = "URIDatatype" -> URIDatatype_validate(value)
      [] t = "URIReferenceDatatype" -> URIReferenceDatatype_validate(value)
      [] t = "UUIDDatatype" -> UUIDDatatype_validate(value)
      [] t = "BooleanDatatype" -> BooleanDatatype_validate(value)

(***************************************************************************)
(* macros/string_impl.rs: what string_impl! gives a type t.                *)
(***************************************************************************)
\* A try_from that wraps the text without looking at validate's answer.
string_impl_try_from_unchecked(t, value) == Ok(value)

\* match Self::validate(value) { Ok(()) => Ok(Self(value.to_string())),
\*                               Err(e) => Err(e) }
string_impl_try_from(t, value) == Wrap(Validate(t, value), value)

string_impl_from_str(t, s) == string_impl_try_from(t, s)

string_impl_base_type == "String"

string_impl_ref_type == "str"

\* T::try_from(value) for a &str, for the types that have it.
TryFromStr(t, value) ==
    CASE t \in StringImplTypes -> string_impl_try_from(t, value)
      [] t = "URIDatatype" -> URIDatatype_try_from(value)
      [] t = "URIReferenceDatatype" -> URIReferenceDatatype_try_from(value)
      [] t = "UUIDDatatype" -> UUIDDatatype_try_from(value)
      [] t = "NCName" -> NCName_try_from(value)
      [] t = "token::TokenDatatype" -> Token_try_from(value)

\* The types that implement FromStr.
\* s.parse::<T>()
FromStr(t, s) ==
    CASE t \in StringImplTypes -> string_impl_from_str(t, s)
      [] t = "URIDatatype" -> URIDatatype_from_str(s)
      [] t = "URIReferenceDatatype" -> URIReferenceDatatype_from_str(s)
      [] t = "NCName" -> NCName_from_str(s)
      [] t = "token::TokenDatatype" -> Token_from_str(s)

\* T::from(value) of the raw scalar, for the boolean and numeric types.
FromScalar(t, value) ==
    CASE t = "BooleanDatatype" -> BooleanDatatype_from(value)
      [] t = "DecimalDatatype" -> DecimalDatatype_from(value)
      [] t = "IntegerDatatype" -> IntegerDatatype_from(value)
      [] t = "NonNegativeIntegerDatatype" ->
            NonNegativeIntegerDatatype_from(value)
      [] t = "PositiveIntegerDatatype" -> PositiveIntegerDatatype_from(value)

(***************************************************************************)
(* The serde attribute of each type: the derive decodes a try_from type    *)
(* through its TryFrom<&str>, a transparent type by decoding its field,    *)
(* and NCName through its own Deserialize.                                 *)
(***************************************************************************)
DecodeError == Err("Decode")

\* map_err(serde::de::Error::custom): the constructor's error becomes the
\* decode's error.
OrDecodeError(r) == IF r.ok THEN r ELSE DecodeError

\* NCName::deserialize: a String, then NCName::try_from.
NCName_deserialize(sc) ==
    IF sc.kind # "string" THEN DecodeError
    ELSE OrDecodeError(NCName_try_from(sc.text))

\* The decode of the number token n as the storage kind of t.
DecodeNumber(t, n) ==
    CASE t = "DecimalDatatype" ->
            IF n.ok THEN Ok(NumberAsF64(n)) ELSE DecodeError
      [] t = "IntegerDatatype" ->
            IF n.ok /\ ~IsFloatToken(n)
            THEN Ok(IF n.neg THEN 0 - ParseNat(n.int) ELSE ParseNat(n.int))
            ELSE DecodeError
      [] t \in UnsignedTypes ->
            IF n.ok /\ ~IsFloatToken(n) /\ ~n.neg
            THEN Ok(ParseNat(n.int))
            ELSE DecodeError

\* The decode of the field a transparent type wraps.
DecodeField(t, sc) ==
    CASE t \in UriTypes \cup {"UUIDDatatype"} ->
            IF sc.kind = "string" THEN Ok(sc.text) ELSE DecodeError
      [] t = "token::TokenDatatype" -> NCName_deserialize(sc)
      [] t = "BooleanDatatype" ->
            IF sc.kind = "bool" THEN Ok(sc.text = TrueText) ELSE DecodeError
      [] OTHER ->
            IF sc.kind = "number"
            THEN DecodeNumber(t, ParseJsonNumber(sc.text))
            ELSE DecodeError

\* serde_json::from_str::<T> of one scalar.
Decode(t, sc) ==
    IF t \in StringImplTypes
    THEN IF sc.kind # "string" THEN DecodeError
         ELSE OrDecodeError(TryFromStr(t, sc.text))
    ELSE IF t = "NCName" THEN NCName_deserialize(sc)
    ELSE DecodeField(t, sc)

\* serde_json::to_string of an instance of type t holding v.
Encode(t, v) ==
    CASE t \in StringBackedTypes -> Scalar("string", v)
      [] t = "BooleanDatatype" ->
            Scalar("bool", IF v THEN TrueText ELSE FalseText)
      [] t = "DecimalDatatype" ->
            IF v.cls = "finite" THEN Scalar("number", F64Text(v))
            ELSE Scalar("null", NullText)
      [] t \in {"IntegerDatatype"} \cup UnsignedTypes ->
            Scalar("number", IntText(v))

\* The derived PartialEq of type t.
ValueEq(t, a, b) == IF t = "DecimalDatatype" THEN f64_eq(a, b) ELSE a = b

(***************************************************************************)
(* lib.rs: the registry, and the Base implementation of each type.         *)
(***************************************************************************)
base_type(t) ==
    CASE t = "BooleanDatatype" -> "bool"
      [] t = "DecimalDatatype" -> "f64"
      [] t = "IntegerDatatype" -> "i64"
      [] t \in UnsignedTypes -> "u64"
      [] t \in StringImplTypes -> string_impl_base_type
      [] t \in UriTypes \cup {"UUIDDatatype"} \cup NameTypes -> "String"

ref_type_borrowed(t) ==
    CASE t = "BooleanDatatype" -> "&bool"
      [] t = "DecimalDatatype" -> "&f64"
      [] t = "IntegerDatatype" -> "&i64"
      [] t \in UnsignedTypes -> "&u64"
      [] OTHER -> "str"

ref_type(t) ==
    CASE t = "BooleanDatatype" -> "bool"
      [] t = "DecimalDatatype" -> "&f64"
      [] t = "IntegerDatatype" -> "&i64"
      [] t \in UnsignedTypes -> "&u64"
      [] t \in StringImplTypes -> string_impl_ref_type
      [] t \in UriTypes \cup {"UUIDDatatype"} \cup NameTypes -> "str"

\* The arms of the match in get_base_type and in get_ref_type.
RegistryNames ==
    {"BooleanDatatype", "DateDatatype", "DateTimeDatatype",
     "DateTimeWithTimezoneDatatype", "DayTimeDurationDatatype",
     "DecimalDatatype", "IntegerDatatype", "NonNegativeIntegerDatatype",
     "PositiveIntegerDatatype", "StringDatatype", "Base64Datatype",
     "EmailAddressDatatype", "TokenDatatype", "URIDatatype",
     "URIReferenceDatatype", "UUIDDatatype"}

get_base_type(name) ==
    IF name \in RegistryNames THEN Ok(base_type(name))
    ELSE ErrWith("UnrecognizedTypeName", name)

get_ref_type(name) ==
    IF name \in RegistryNames THEN Ok(ref_type(name))
    ELSE ErrWith("UnrecognizedTypeName", name)

(***************************************************************************)
(* The generators.  now is what the clock returned: the local date and     *)
(* time and the UTC date and time of one instant, with its nanoseconds.    *)
(***************************************************************************)
DateText(d) ==
    Pad(NatText(d.year), 4) \o <<"-">> \o Pad(NatText(d.month), 2)
    \o <<"-">> \o Pad(NatText(d.day), 2)

TimeText(d) ==
    Pad(NatText(d.hour), 2) \o <<":">> \o Pad(NatText(d.minute), 2)
    \o <<":">> \o Pad(NatText(d.second), 2)

\* Self(now.date_naive().to_string())
DateDatatype_new(now) == DateText(now.local)

\* Local::now().naive_local().format("%Y-%m-%dT%H:%M:%S").to_string()
DateTimeDatatype_new(now) ==
    DateText(now.local) \o <<"T">> \o TimeText(now.local)

\* The fraction of a second as to_rfc3339 writes it: nothing when it is
\* zero, else 3, 6 or 9 digits, the fewest that lose nothing.
FractionText(nanos) ==
    IF nanos = 0 THEN <<>>
    ELSE IF nanos % 1000000 = 0
         THEN <<".">> \o Pad(NatText(nanos \div 1000000), 3)
    ELSE IF nanos % 1000 = 0
         THEN <<".">> \o Pad(NatText(nanos \div 1000), 6)
    ELSE <<".">> \o Pad(NatText(nanos), 9)

\* A timezone-aware generator that renders the naive form.
DateTimeWithTimezoneDatatype_new_naive(now) == DateTimeDatatype_new(now)

\* utc.to_rfc3339(): the UTC offset is written +00:00.
DateTimeWithTimezoneDatatype_new(now) ==
    DateText(now.utc) \o <<"T">> \o TimeText(now.utc)
    \o FractionText(now.nanos)
    \o <<"+", "0", "0", ":", "0", "0">>

GeneratorTypes ==
    {"DateDatatype", "DateTimeDatatype", "DateTimeWithTimezoneDatatype",
     "UUIDDatatype"}

(***************************************************************************)
(* The inputs the operations are tried on: every text of at most MaxLen    *)
(* characters over Alphabet, and the texts below.                          *)
(***************************************************************************)
Alphabet == {"a", "_", "2", ":", " "}

BooleanExamples ==
    {<<"t", "r", "u", "e">>,
     <<"f", "a", "l", "s", "e">>,
     <<"1">>,
     <<" ", "t", "r", "u", "e">>,
     <<"T", "r", "u", "e">>,
     <<"t", "r", "u", "e", "e">>}

\* Number tokens of a document.
NumberTokens ==
    {<<"0">>,
     <<"1">>,
     <<"-", "1">>,
     <<"-", "0">>,
     <<"1", "2">>,
     <<"0", "1">>,
     <<"1", ".", "0">>,
     <<"1", ".", "5">>,
     <<"1", ".", "5", "0">>,
     <<"1", "e", "2">>,
     <<"1", "E", "2">>,
     <<"1", "e", "-", "2">>,
     <<"1", "0", "0", ".", "0">>,
     <<"0", ".", "0", "0", "1">>,
     <<"1", ".">>,
     <<"-">>,
     <<"-", "2">>}

ExampleTexts ==
    BooleanExamples \cup
    { \* names
     <<"a", "b", "c">>,
     <<"_", "a", "b", "c">>,
     <<"A", "b", "c">>,
     <<":", "a", "b", "c">>,
     <<"@", "a", "b", "c">>,
     <<"a", ":", "b">>,
     <<"-", "a">>,
     <<".", "a">>,
     <<"a", "-", ".", "2">>,
     <<"a", "b", "c", "-", "d", "e", "f">>,
     <<"a", ".", "b">>,
     <<"2", "a", "b">>,
     <<"-", "a", "b">>,
     <<".", "a", "b">>,
     <<"a", "U+00B7">>,
     <<"U+00B7", "a">>,
     <<"U+0300", "a">>,
     <<"a", "U+0300">>,
     <<"U+00E9">>,
     <<"U+00D7", "a">>,
     <<"a", "U+00D7">>,
    \* strings
     <<" ", "a", "b", "c">>,
     <<"a", "b", "c", " ">>,
     <<"a", " ", "b", "c">>,
     <<"U+0009", "a", "b", "c">>,
     <<"a", "b", "c", "U+000A">>,
     <<"U+00A0", "a", "b", "c">>,
     <<"a", "b", "c", "U+3000">>,
     <<"a", "@", "b">>,
     <<"Q", "U", "J", "D">>,
     <<"Q", "Q", "=", "=">>,
    \* addresss
     <<"1", "9", "2", ".", "1", "6", "8", ".", "0", ".", "1">>,
     <<"2", "5", "6", ".", "1", ".", "1", ".", "1">>,
     <<"0", "1", ".", "2", ".", "3", ".", "4">>,
     <<"1", ".", "2", ".", "3">>,
     <<":", ":", "1">>,
     <<":", ":">>,
     <<"1", ":", "2", ":", "3", ":", "4", ":", "5", ":", "6", ":", "7", ":", "8">>,
     <<"f", "e", "8", "0", ":", ":", "1">>,
     <<":", ":", "f", "f", "f", "f", ":", "1", ".", "2", ".", "3", ".", "4">>,
     <<"1", ":", ":", "2", ":", ":", "3">>,
     <<"1", ":", "2", ":", "3", ":", "4", ":", "5", ":", "6", ":", "7">>,
    \* dates
     <<"2", "0", "2", "4", "-", "0", "2", "-", "1", "0">>,
     <<"2", "0", "2", "4", "-", "0", "2", "-", "3", "0">>,
     <<"2", "0", "2", "3", "-", "0", "2", "-", "2", "9">>,
     <<"2", "0", "2", "4", "-", "0", "2", "-", "2", "9">>,
     <<"2", "0", "2", "4", "-", "0", "2", "-", "1", "0", "Z">>,
     <<"2", "0", "2", "4", "-", "0", "4", "-", "1", "3", "T", "0", "9", ":", "5", "7", ":", "1", "3">>,
     <<"2", "0", "2", "4", "-", "0", "4", "-", "1", "3", "T", "0", "9", ":", "5", "7", ":", "1", "3", "Z">>,
     <<"2", "0", "2", "4", "-", "0", "4", "-", "1", "3", "T", "0", "9", ":", "5", "7", ":", "1", "3", "+", "0", "5", ":", "0", "0">>,
     <<"2", "0", "2", "4", "-", "0", "4", "-", "1", "3", "T", "0", "9", ":", "5", "7", ":", "1", "3", ".", "5", "Z">>,
     <<"2", "0", "2", "4", "-", "0", "4", "-", "1", "3", " ", "0", "9", ":", "5", "7", ":", "1", "3", "Z">>,
     <<"2", "0", "2", "4", "-", "0", "4", "-", "1", "3", "T", "2", "5", ":", "0", "0", ":", "0", "0", "Z">>,
     <<"2", "0", "2", "4", "-", "0", "4", "-", "1", "3", "T", "0", "9", ":", "5", "7", ":", "1", "3", "+", "0", "5">>,
    \* durations
     <<"P", "4", "D", "T", "2", "3", "H", "1", "0", "S">>,
     <<"P", "2", "Y", "3", "M">>,
     <<"P", "2", "Y", "3", "M", "4", "D">>,
     <<"P">>,
     <<"P", "T">>,
     <<"P", "1", "M">>,
     <<"P", "T", "1", "M">>,
     <<"P", "4", "D">>,
     <<"P", "T", "5", "S">>,
     <<"P", "1", "Y", "T", "2", "H">>,
     <<"P", "2", "Y", "3", "M", "T", "4", "H">>,
     <<"4", "D">>,
     <<"P", "1", "H">>,
     <<"P", "0", "Y", "4", "D">>,
     <<"P", "3", "M", "2", "Y">>,
    \* uris
     <<"h", "t", "t", "p", "s", ":", "/", "/", "f", "e", "d", "r", "a", "m", "p", ".", "g", "o", "v", "/", "n", "s", "/", "o", "s", "c", "a", "l">>,
     <<"#", "a", "7", "8", "f", "7", "e", "4", "c", "-", "a", "2", "7", "a", "-", "4", "b", "1", "e", "-", "9", "0", "1", "b", "-", "e", "b", "f", "e", "c", "f", "2", "b", "0", "3", "0", "1">>,
     <<"h", "t", "t", "p", ":", "/", "/", "a", "#", "b">>,
     <<"a", "/", "b">>,
     <<"a", "/", "b", ":", "c">>,
     <<"m", "a", "i", "l", "t", "o", ":", "a", "@", "b">>,
     <<"%", "z", "z">>,
     <<"%", "4", "1">>,
     <<"a", "?", "b", "#", "c">>,
     <<"a", "#", "b", "#", "c">>,
    \* uuids
     <<"a", "7", "8", "f", "7", "e", "4", "c", "-", "a", "2", "7", "a", "-", "4", "b", "1", "e", "-", "9", "0", "1", "b", "-", "e", "b", "f", "e", "c", "f", "2", "b", "0", "3", "0", "1">>,
     <<"A", "7", "8", "F", "7", "E", "4", "C", "-", "A", "2", "7", "A", "-", "4", "B", "1", "E", "-", "9", "0", "1", "B", "-", "E", "B", "F", "E", "C", "F", "2", "B", "0", "3", "0", "1">>,
     <<"a", "7", "8", "f", "7", "e", "4", "c", "a", "2", "7", "a", "4", "b", "1", "e", "9", "0", "1", "b", "e", "b", "f", "e", "c", "f", "2", "b", "0", "3", "0", "1">>,
     <<"{", "a", "7", "8", "f", "7", "e", "4", "c", "-", "a", "2", "7", "a", "-", "4", "b", "1", "e", "-", "9", "0", "1", "b", "-", "e", "b", "f", "e", "c", "f", "2", "b", "0", "3", "0", "1", "}">>,
     <<"u", "r", "n", ":", "u", "u", "i", "d", ":", "a", "7", "8", "f", "7", "e", "4", "c", "-", "a", "2", "7", "a", "-", "4", "b", "1", "e", "-", "9", "0", "1", "b", "-", "e", "b", "f", "e", "c", "f", "2", "b", "0", "3", "0", "1">>,
     <<"a", "7", "8", "f", "7", "e", "4", "c", "-", "a", "2", "7", "a", "-", "4", "b", "1", "e", "-", "9", "0", "1", "b", "-", "e", "b", "f", "e", "c", "f", "2", "b", "0", "3", "0">>,
     <<"b", "l", "a", "h">>}

Texts == UNION {[1..n -> Alphabet] : n \in 0..MaxLen} \cup ExampleTexts

\* The scalars a field of type t is decoded from.
ScalarsFor(t) ==
    IF t \in StringBackedTypes
    THEN {Scalar("string", x) : x \in Texts}
         \cup {Scalar("number", <<"1">>), Scalar("bool", TrueText),
               Scalar("null", NullText)}
    ELSE {Scalar("number", x) : x \in NumberTokens}
         \cup {Scalar("bool", TrueText), Scalar("bool", FalseText),
               Scalar("null", NullText)}
         \cup {Scalar("string", x) : x \in BooleanExamples \cup NumberTokens}

F64Values ==
    {Finite(FALSE, 0, 0), Finite(TRUE, 0, 0), Finite(FALSE, 1, 0),
     Finite(TRUE, 1, 0), Finite(FALSE, 15, -1), Finite(FALSE, 1, 2),
     Finite(FALSE, 1, -3),
     [cls |-> "nan", neg |-> FALSE, mant |-> 0, exp |-> 0],
     Infinity(FALSE), Infinity(TRUE)}

\* The values of the storage kind of the scalar type t.
ValuesOf(t) ==
    CASE t = "BooleanDatatype" -> BOOLEAN
      [] t = "DecimalDatatype" -> F64Values
      [] t = "IntegerDatatype" -> (0 - MaxInt)..MaxInt
      [] t \in UnsignedTypes -> 0..MaxInt

Moment(y, mo, d, h, mi, sec) ==
    [year |-> y, month |-> mo, day |-> d, hour |-> h, minute |-> mi,
     second |-> sec]

\* What the clock may return.
Clocks ==
    {[local |-> Moment(2024, 4, 13, 9, 57, 13),
      utc |-> Moment(2024, 4, 13, 4, 57, 13), nanos |-> 0],
     [local |-> Moment(2024, 2, 29, 23, 59, 59),
      utc |-> Moment(2024, 3, 1, 4, 59, 59), nanos |-> 123456789],
     [local |-> Moment(1999, 12, 31, 0, 0, 0),
      utc |-> Moment(1999, 12, 31, 0, 0, 0), nanos |-> 5000000],
     [local |-> Moment(987, 1, 1, 0, 0, 0),
      utc |-> Moment(986, 12, 31, 23, 0, 0), nanos |-> 0]}

\* What the random source may return: the 32 digits of a version 4 UUID.
Randoms ==
    {<<"a","7","8","f","7","e","4","c","a","2","7","a","4","b","1","e",
       "9","0","1","b","e","b","f","e","c","f","2","b","0","3","0","1">>,
     <<"0","0","0","0","0","0","0","0","0","0","0","0","4","0","0","0",
       "8","0","0","0","0","0","0","0","0","0","0","0","0","0","0","0">>,
     <<"f","f","f","f","f","f","f","f","f","f","f","f","4","f","f","f",
       "b","f","f","f","f","f","f","f","f","f","f","f","f","f","f","f">>}

(***************************************************************************)
(* The state: the build's date_validation feature; the last operation op   *)
(* called on type (or registry name) ty with argument arg and its result   *)
(* res; the live instance inst, if the call produced one, and the          *)
(* operation made that produced it.                                        *)
(***************************************************************************)
NoInst == [ty |-> "none", val |-> Unit]

Inst(t, v) == [ty |-> t, val |-> v]

\* The names the registry is asked for.
QueriedNames ==
    (AllTypes \ NameTypes) \cup {"NCName", "Datatype", "booleandatatype", ""}

Init ==
    /\ date_validation \in BOOLEAN
    /\ op = "idle"
    /\ ty = "none"
    /\ arg = Scalar("none", <<>>)
    /\ res = Ok(Unit)
    /\ inst = NoInst
    /\ made = "none"

\* The outcome of a constructing call: the instance lives only if it is Ok.
Constructed(o, t, a, r) ==
    /\ op' = o
    /\ ty' = t
    /\ arg' = a
    /\ res' = r
    /\ inst' = IF r.ok THEN Inst(t, r.val) ELSE NoInst
    /\ made' = IF r.ok THEN o ELSE "none"
    /\ UNCHANGED date_validation

\* The outcome of a call that constructs nothing.
Answered(o, t, a, r) ==
    /\ op' = o
    /\ ty' = t
    /\ arg' = a
    /\ res' = r
    /\ inst' = NoInst
    /\ made' = "none"
    /\ UNCHANGED date_validation

DoValidate ==
    /\ op = "idle"
    /\ \E t \in ValidateTypes, s \in Texts :
           Answered("validate", t, Scalar("string", s), Validate(t, s))

DoTryFrom ==
    /\ op = "idle"
    /\ \E t \in StringBackedTypes, s \in Texts :
           Constructed("try_from", t, Scalar("string", s), TryFromStr(t, s))

DoFromStr ==
    /\ op = "idle"
    /\ \E t \in StringImplTypes \cup UriTypes \cup NameTypes, s \in Texts :
           Constructed("from_str", t, Scalar("string", s), FromStr(t, s))

DoFrom ==
    /\ op = "idle"
    /\ \E t \in ScalarTypes :
           \E v \in ValuesOf(t) :
               Constructed("from", t, Scalar("value", <<>>), Ok(FromScalar(t, v)))

\* T::try_from(&value) of the raw scalar.
TryFromRef(t, value) ==
    CASE t = "BooleanDatatype" -> BooleanDatatype_try_from(value)
      [] t = "DecimalDatatype" -> DecimalDatatype_try_from(value)
      [] t = "IntegerDatatype" -> IntegerDatatype_try_from(value)
      [] t = "NonNegativeIntegerDatatype" ->
            NonNegativeIntegerDatatype_try_from(value)
      [] t = "PositiveIntegerDatatype" ->
            PositiveIntegerDatatype_try_from(value)

DoTryFromRef ==
    /\ op = "idle"
    /\ \E t \in ScalarTypes :
           \E v \in ValuesOf(t) :
               Constructed("try_from", t, Scalar("value", <<>>), TryFromRef(t, v))

\* T::new()
New(t, now, random) ==
    CASE t = "DateDatatype" -> DateDatatype_new(now)
      [] t = "DateTimeDatatype" -> DateTimeDatatype_new(now)
      [] t = "DateTimeWithTimezoneDatatype" ->
            DateTimeWithTimezoneDatatype_new(now)
      [] t = "UUIDDatatype" -> UUIDDatatype_new(random)

DoNew ==
    /\ op = "idle"
    /\ \E t \in GeneratorTypes, now \in Clocks, random \in Randoms :
           Constructed("new", t, Scalar("none", <<>>), Ok(New(t, now, random)))

DoDecode ==
    /\ op = "idle"
    /\ \E t \in AllTypes :
           \E sc \in ScalarsFor(t) :
               Constructed("decode", t, sc, Decode(t, sc))

\* T::minimum() and T::maximum() of a numeric type.
DoMinimum ==
    /\ op = "idle"
    /\ \E t \in ScalarTypes \ {"BooleanDatatype"} :
           Answered("minimum", t, Scalar("none", <<>>), Ok(minimum(t)))

DoMaximum ==
    /\ op = "idle"
    /\ \E t \in ScalarTypes \ {"BooleanDatatype"} :
           Answered("maximum", t, Scalar("none", <<>>), Ok(maximum(t)))

DoGetBaseType ==
    /\ op = "idle"
    /\ \E name \in QueriedNames :
           Answered("get_base_type", name, Scalar("name", <<>>), get_base_type(name))

DoGetRefType ==
    /\ op = "idle"
    /\ \E name \in QueriedNames :
           Answered("get_ref_type", name, Scalar("name", <<>>), get_ref_type(name))

\* The text an instance renders to: its deref, or the to_string of the
\* scalar it derefs to.
Render(t, v) ==
    IF t = "DecimalDatatype" THEN F64Display(v) ELSE Encode(t, v).text

\* The instance is rendered and T is constructed again from the rendering:
\* through try_from for a string-backed type, through a decode otherwise.
Reconstruct(t, v) ==
    IF t \in StringBackedTypes
    THEN TryFromStr(t, Render(t, v))
    ELSE Decode(t, Encode(t, v))

\* The live instance is encoded.
DoEncode ==
    /\ op = made
    /\ inst # NoInst
    /\ op' = "encode"
    /\ res' = Ok(Encode(inst.ty, inst.val))
    /\ UNCHANGED <<date_validation, ty, arg, inst, made>>

\* The live instance is rendered and constructed again.
DoRoundTrip ==
    /\ op = made
    /\ inst # NoInst
    /\ op' = "round_trip"
    /\ res' = Reconstruct(inst.ty, inst.val)
    /\ UNCHANGED <<date_validation, ty, arg, inst, made>>

\* The caller drops what it holds and goes on to its next call.
Reset ==
    /\ op # "idle"
    /\ op' = "idle"
    /\ ty' = "none"
    /\ arg' = Scalar("none", <<>>)
    /\ res' = Ok(Unit)
    /\ inst' = NoInst
    /\ made' = "none"
    /\ UNCHANGED date_validation

Next ==
    \/ DoValidate
    \/ DoTryFrom
    \/ DoFromStr
    \/ DoFrom
    \/ DoTryFromRef
    \/ DoNew
    \/ DoDecode
    \/ DoMinimum
    \/ DoMaximum
    \/ DoGetBaseType
    \/ DoGetRefType
    \/ DoEncode
    \/ DoRoundTrip
    \/ Reset

Spec == Init /\ [][Next]_vars

(***************************************************************************)
(* The claims.                                                             *)
(***************************************************************************)
\* C1: every live instance of a type that has a validate holds a value
\* that validate accepts, whichever public path produced it (try_from,
\* from_str, From, new or a decode).
C1_LiveInstanceValid ==
    (inst # NoInst /\ inst.ty \in ValidateTypes)
        => Validate(inst.ty, Render(inst.ty, inst.val)).ok

\* C2: for a string_impl type and for the two URI types, try_from(raw) and
\* from_str(raw) return Ok of an instance wrapping raw unchanged when
\* validate(raw) is Ok, and otherwise exactly validate's error and no
\* instance.
C2_ConstructionContract ==
    (/\ op \in {"try_from", "from_str"}
     /\ ty \in StringImplTypes \cup UriTypes)
        => LET v == Validate(ty, arg.text) IN
           IF v.ok
           THEN res = Ok(arg.text) /\ inst = Inst(ty, arg.text)
           ELSE res = Err(v.err) /\ inst = NoInst

\* C2 witness: a from_str of an absolute-URI type came back with
\* validate's error and left no instance.
C2_Witness ==
    /\ op = "from_str"
    /\ ty = "URIDatatype"
    /\ res = Err("UriAbsolute")
    /\ inst = NoInst

\* The datatypes the datatype family declares.
DeclaredDatatypes ==
    {"BooleanDatatype", "IntegerDatatype", "NonNegativeIntegerDatatype",
     "PositiveIntegerDatatype", "DecimalDatatype", "StringDatatype",
     "Base64Datatype", "EmailAddressDatatype", "HostnameDatatype",
     "IPV4AddressDatatype", "IPV6AddressDatatype", "TokenDatatype",
     "DateDatatype", "DateTimeDatatype", "DateTimeWithTimezoneDatatype",
     "DayTimeDurationDatatype", "YearMonthDurationDatatype", "URIDatatype",
     "URIReferenceDatatype", "UUIDDatatype"}

\* C3: get_base_type and get_ref_type succeed for every declared datatype
\* and fail with UnrecognizedTypeName, carrying the name, for any other
\* name.
C3_RegistrySymmetry ==
    op \in {"get_base_type", "get_ref_type"}
        => IF ty \in DeclaredDatatypes THEN res.ok
           ELSE res = ErrWith("UnrecognizedTypeName", ty)

\* C4: for every datatype but UUID and the timezone-aware date-time, a
\* value produced by a successful construction, rendered to text and
\* constructed again, gives an equal value.
C4_ValueRoundTrip ==
    (/\ op = "round_trip"
     /\ ty \in DeclaredDatatypes
     /\ ty \notin {"UUIDDatatype", "DateTimeWithTimezoneDatatype"})
        => res.ok /\ ValueEq(ty, res.val, inst.val)

\* C5: for every datatype but UUID, an instance that a decode produced
\* renders to the decoded text, and its encoding is the decoded scalar.
C5_TextRoundTrip ==
    (/\ op = "encode"
     /\ made = "decode"
     /\ ty \in DeclaredDatatypes
     /\ ty # "UUIDDatatype")
        => res.val = arg /\ Render(ty, inst.val) = arg.text

\* C6: NCName construction accepts a name that starts with a letter or an
\* underscore and goes on with legal characters; it rejects an illegal
\* first character with NCNameIllegalFirstChar, and a legal first
\* character followed by an illegal one with NCNameIllegalChar.
C6_IdentifierClasses ==
    (op \in {"try_from", "from_str"} /\ ty = "NCName")
        => LET s == arg.text
               legalFirst == Len(s) > 0 /\ is_valid_start_char(s[1])
               legalRest == \A i \in 2..Len(s) : is_valid_char(s[i])
           IN  /\ (Len(s) > 0 /\ ~legalFirst)
                     => res = Err("NCNameIllegalFirstChar")
               /\ (legalFirst /\ ~legalRest) => res = Err("NCNameIllegalChar")
               /\ (Len(s) > 0 /\ (IsAlpha(s[1]) \/ s[1] = "_") /\ legalRest)
                     => res = Ok(s)
               /\ s \in {<<"a", "b", "c">>, <<"_", "a", "b", "c">>, <<"A", "b", "c">>} => res.ok
               /\ s \in {<<":", "a", "b", "c">>, <<"@", "a", "b", "c">>}
                     => res = Err("NCNameIllegalFirstChar")
               /\ s = <<"a", ":", "b">> => res = Err("NCNameIllegalChar")

\* C6 witness: "a:b" was rejected for its later character.
C6_Witness ==
    /\ op = "from_str"
    /\ ty = "NCName"
    /\ arg.text = <<"a", ":", "b">>
    /\ res = Err("NCNameIllegalChar")

\* C7: the validate and the try_from of TokenDatatype, in strings.rs and
\* in token.rs, succeed exactly when NCName::try_from does and fail with
\* the error it fails with.
C7_TokenDelegation ==
    (\/ op \in {"validate", "try_from", "from_str"} /\ ty = "TokenDatatype"
     \/ op \in {"try_from", "from_str"} /\ ty = "token::TokenDatatype")
        => LET n == NCName_try_from(arg.text) IN
           /\ res.ok <=> n.ok
           /\ ~res.ok => res.err = n.err

\* C7 witness: the token validate reported the error of the name.
C7_Witness ==
    /\ op = "validate"
    /\ ty = "TokenDatatype"
    /\ arg.text = <<"a", ":", "b">>
    /\ res = Err("NCNameIllegalChar")

HasOuterWhitespace(s) ==
    Len(s) > 0 /\ (is_whitespace(s[1]) \/ is_whitespace(s[Len(s)]))

C9_StringNonEmpty ==
    (inst # NoInst /\ inst.ty = "StringDatatype") => Len(inst.val) > 0

\* C10: DayTimeDurationDatatype accepts a text only if it parses as a
\* duration without years and months, YearMonthDurationDatatype only if it
\* parses as one without days, hours, minutes and seconds; a rejection is
\* DurationParse; the day-time type accepts "P4DT23H10S", the year-month
\* type accepts "P2Y3M" and rejects "P2Y3M4D".
C10_DurationGranularity ==
    (op = "validate"
     /\ ty \in {"DayTimeDurationDatatype", "YearMonthDurationDatatype"})
        => LET d == ParseDuration(arg.text) IN
           /\ ~res.ok => res = Err("DurationParse")
           /\ ~d.ok => ~res.ok
           /\ (res.ok /\ ty = "DayTimeDurationDatatype")
                 => d.year = 0 /\ d.month = 0
           /\ (res.ok /\ ty = "YearMonthDurationDatatype")
                 => d.day = 0 /\ d.hour = 0 /\ d.minute = 0 /\ d.second = 0
           /\ (ty = "DayTimeDurationDatatype" /\ arg.text = <<"P", "4", "D", "T", "2", "3", "H", "1", "0", "S">>)
                 => res.ok
           /\ (ty = "YearMonthDurationDatatype" /\ arg.text = <<"P", "2", "Y", "3", "M">>)
                 => res.ok
           /\ (ty = "YearMonthDurationDatatype" /\ arg.text = <<"P", "2", "Y", "3", "M", "4", "D">>)
                 => ~res.ok

\* C11: with date validation enabled, DateTimeDatatype::validate accepts a
\* text that parses as a timezone-aware timestamp or, failing that, as a
\* naive date-time, and fails with DateParse only when both parses fail;
\* DateTimeWithTimezoneDatatype::validate accepts the timezone-aware form
\* only and rejects the naive "2024-04-13T09:57:13" with DateParse.
C11_DateTimeFallback ==
    (/\ op = "validate"
     /\ ty \in {"DateTimeDatatype", "DateTimeWithTimezoneDatatype"})
        => LET s == arg.text
               aware == ParsesDateTimeUtc(s)
               naive == ParsesNaiveDateTime(s)
           IN  /\ ~res.ok => res = Err("DateParse")
               /\ (ty = "DateTimeDatatype" /\ date_validation)
                     => (res.ok <=> (aware \/ naive))
               /\ ty = "DateTimeWithTimezoneDatatype" => (res.ok <=> aware)
               /\ s = <<"2", "0", "2", "4", "-", "0", "4", "-", "1", "3", "T", "0", "9", ":", "5", "7", ":", "1", "3">>
                     => IF ty = "DateTimeWithTimezoneDatatype"
                        THEN res = Err("DateParse")
                        ELSE res.ok
               /\ s \in {<<"2", "0", "2", "4", "-", "0", "4", "-", "1", "3", "T", "0", "9", ":", "5", "7", ":", "1", "3", "Z">>, <<"2", "0", "2", "4", "-", "0", "4", "-", "1", "3", "T", "0", "9", ":", "5", "7", ":", "1", "3", "+", "0", "5", ":", "0", "0">>} => res.ok

\* C11 witness: the timezone-mandatory validate rejected the naive text
\* that DateTimeDatatype accepts.
C11_Witness ==
    /\ op = "validate"
    /\ ty = "DateTimeWithTimezoneDatatype"
    /\ arg.text = <<"2", "0", "2", "4", "-", "0", "4", "-", "1", "3", "T", "0", "9", ":", "5", "7", ":", "1", "3">>
    /\ res = Err("DateParse")
    /\ DateTimeDatatype_validate(arg.text, TRUE).ok

\* C12: URIReferenceDatatype::validate is Ok exactly when the text parses as
\* a URI reference and UriParse otherwise; URIDatatype::validate is UriParse
\* for a text that does not parse, UriAbsolute for one that parses and is
\* not absolute (no scheme, or a fragment), and Ok for an absolute one; what
\* URIDatatype accepts, URIReferenceDatatype accepts.
C12_AbsoluteVersusRelative ==
    (op = "validate" /\ ty \in UriTypes)
        => LET s == arg.text
               u == ParseUri(s)
               absolute == u.ok /\ u.has_scheme /\ ~u.has_fragment
           IN  /\ ty = "URIReferenceDatatype"
                     => res = IF u.ok THEN Ok(Unit) ELSE Err("UriParse")
               /\ ty = "URIDatatype"
                     => /\ res = IF ~u.ok THEN Err("UriParse")
                                 ELSE IF absolute THEN Ok(Unit)
                                 ELSE Err("UriAbsolute")
                        /\ res.ok => URIReferenceDatatype_validate(s).ok
               /\ s = <<"h", "t", "t", "p", "s", ":", "/", "/", "f", "e", "d", "r", "a", "m", "p", ".", "g", "o", "v", "/", "n", "s", "/", "o", "s", "c", "a", "l">> => res.ok
               /\ s = <<"#", "a", "7", "8", "f", "7", "e", "4", "c", "-", "a", "2", "7", "a", "-", "4", "b", "1", "e", "-", "9", "0", "1", "b", "-", "e", "b", "f", "e", "c", "f", "2", "b", "0", "3", "0", "1">>
                     => IF ty = "URIDatatype" THEN res = Err("UriAbsolute")
                        ELSE res.ok

\* C12 witness: the absolute-URI validate rejected the fragment-only
\* reference as not absolute.
C12_Witness ==
    /\ op = "validate"
    /\ ty = "URIDatatype"
    /\ arg.text = <<"#", "a", "7", "8", "f", "7", "e", "4", "c", "-", "a", "2", "7", "a", "-", "4", "b", "1", "e", "-", "9", "0", "1", "b", "-", "e", "b", "f", "e", "c", "f", "2", "b", "0", "3", "0", "1">>
    /\ res = Err("UriAbsolute")

\* C13: UUIDDatatype::validate is Ok exactly when the text is a UUID in one
\* of the forms the parser knows (simple, hyphenated, braced, URN), and
\* UuidParse otherwise, as for "blah"; the text of a UUIDDatatype that new()
\* produced passes validate.
C13_UuidValidation ==
    /\ (op = "validate" /\ ty = "UUIDDatatype")
          => LET s == arg.text IN
             /\ res = IF UuidDigits(s) # <<>> THEN Ok(Unit)
                      ELSE Err("UuidParse")
             /\ s = <<"b", "l", "a", "h">> => res = Err("UuidParse")
             /\ s \in {<<"a", "7", "8", "f", "7", "e", "4", "c", "-", "a", "2", "7", "a", "-", "4", "b", "1", "e", "-", "9", "0", "1", "b", "-", "e", "b", "f", "e", "c", "f", "2", "b", "0", "3", "0", "1">>, <<"a", "7", "8", "f", "7", "e", "4", "c", "a", "2", "7", "a", "4", "b", "1", "e", "9", "0", "1", "b", "e", "b", "f", "e", "c", "f", "2", "b", "0", "3", "0", "1">>, <<"{", "a", "7", "8", "f", "7", "e", "4", "c", "-", "a", "2", "7", "a", "-", "4", "b", "1", "e", "-", "9", "0", "1", "b", "-", "e", "b", "f", "e", "c", "f", "2", "b", "0", "3", "0", "1", "}">>, <<"u", "r", "n", ":", "u", "u", "i", "d", ":", "a", "7", "8", "f", "7", "e", "4", "c", "-", "a", "2", "7", "a", "-", "4", "b", "1", "e", "-", "9", "0", "1", "b", "-", "e", "b", "f", "e", "c", "f", "2", "b", "0", "3", "0", "1">>} => res.ok
    /\ (made = "new" /\ inst.ty = "UUIDDatatype")
          => UUIDDatatype_validate(inst.val).ok

\* C13 witness: "blah" was rejected with UuidParse.
C13_Witness ==
    /\ op = "validate"
    /\ ty = "UUIDDatatype"
    /\ arg.text = <<"b", "l", "a", "h">>
    /\ res = Err("UuidParse")

\* C14: UUIDDatatype::try_from stores the normalized rendering of the UUID
\* (hyphenated, lower case), not the text it was given; two accepted texts
\* that denote the same UUID give equal instances; and constructing again
\* from the stored text succeeds and stores the identical text.
C14_UuidCanonical ==
    /\ (op = "try_from" /\ ty = "UUIDDatatype" /\ res.ok)
          => /\ IsHyphenatedUuid(inst.val)
             /\ inst.val = LowerText(inst.val)
             /\ LowerText(UuidDigits(arg.text)) = UuidDigits(inst.val)
             /\ \A s \in Texts :
                   (/\ UuidDigits(s) # <<>>
                    /\ LowerText(UuidDigits(s))
                          = LowerText(UuidDigits(arg.text)))
                      => UUIDDatatype_try_from(s) = res
             /\ UUIDDatatype_try_from(inst.val) = Ok(inst.val)
    /\ (op = "round_trip" /\ ty = "UUIDDatatype" /\ made = "try_from")
          => res = Ok(inst.val)

\* C14 witness: an accepted text that is not in normalized form was stored
\* as another text.
C14_Witness ==
    /\ op = "try_from"
    /\ ty = "UUIDDatatype"
    /\ res.ok
    /\ arg.text = <<"A", "7", "8", "F", "7", "E", "4", "C", "-", "A", "2", "7", "A", "-", "4", "B", "1", "E", "-", "9", "0", "1", "B", "-", "E", "B", "F", "E", "C", "F", "2", "B", "0", "3", "0", "1">>
    /\ inst.val # arg.text

\* C15: the text of an instance that DateDatatype::new, DateTimeDatatype::new,
\* DateTimeWithTimezoneDatatype::new or UUIDDatatype::new produced, whatever
\* the clock or the random source returned, passes the validate of its type.
C15_GeneratorValidity ==
    (op = "new" /\ ty \in GeneratorTypes)
        => /\ res.ok
           /\ inst = Inst(ty, res.val)
           /\ Validate(ty, inst.val).ok

\* C15 witness: with date validation enabled, the timezone-aware generator
\* produced a text with a fraction of a second.
C15_Witness ==
    /\ op = "new"
    /\ ty = "DateTimeWithTimezoneDatatype"
    /\ date_validation
    /\ inst # NoInst
    /\ \E i \in 1..Len(inst.val) : inst.val[i] = "."

\* C16: DateTimeDatatype::new produces the current local date-time as
\* RFC 3339 text, which includes the timezone.
C16_NewIncludesTimezone ==
    (op = "new" /\ ty = "DateTimeDatatype")
        => /\ inst # NoInst
           /\ ParsesDateTimeUtc(inst.val)


\* C18: the declared numeric bounds are advisory.  NonNegativeIntegerDatatype
\* declares the minimum 0 and PositiveIntegerDatatype the minimum 1, the
\* integer and the decimal declare none, and no type declares a maximum;
\* every From and TryFrom of a value of the storage kind succeeds and holds
\* that value, a PositiveIntegerDatatype of 0 included, and a decode into an
\* unsigned type succeeds for every integer token without a sign and fails
\* for a negative one.
C18_BoundsAdvisory ==
    /\ op = "minimum" =>
           res = Ok(CASE ty = "NonNegativeIntegerDatatype" -> {0}
                      [] ty = "PositiveIntegerDatatype" -> {1}
                      [] OTHER -> {})
    /\ op = "maximum" => res = Ok({})
    /\ (op \in {"from", "try_from"} /\ arg.kind = "value"
            /\ ty \in ScalarTypes \ {"BooleanDatatype"}) =>
           /\ res.ok
           /\ inst = Inst(ty, res.val)
           /\ res.val \in ValuesOf(ty)
    /\ (op = "decode" /\ ty \in UnsignedTypes /\ arg.kind = "number") =>
           /\ arg.text \in {<<"0">>, <<"1">>, <<"1", "2">>} => res.ok
           /\ arg.text = <<"0">> => inst = Inst(ty, 0)
           /\ arg.text = <<"-", "1">> => ~res.ok

\* A PositiveIntegerDatatype below its declared minimum has been constructed
\* through TryFrom.
C18_Witness ==
    /\ op = "try_from"
    /\ ty = "PositiveIntegerDatatype"
    /\ arg.kind = "value"
    /\ res.ok
    /\ inst = Inst("PositiveIntegerDatatype", 0)
    /\ 0 \notin minimum("PositiveIntegerDatatype")

C20_RegistryRepresentation ==
    /\ (op = "get_base_type" /\ ty \in RegistryNames) =>
           res = Ok(CASE ty = "BooleanDatatype" -> "bool"
                      [] ty = "DecimalDatatype" -> "f64"
                      [] ty = "IntegerDatatype" -> "i64"
                      [] ty \in {"NonNegativeIntegerDatatype",
                                 "PositiveIntegerDatatype"} -> "u64"
                      [] OTHER -> "String")
    /\ (op = "get_ref_type" /\ ty \in RegistryNames) =>
           res = Ok(CASE ty = "BooleanDatatype" -> "bool"
                      [] ty = "DecimalDatatype" -> "&f64"
                      [] ty = "IntegerDatatype" -> "&i64"
                      [] ty \in {"NonNegativeIntegerDatatype",
                                 "PositiveIntegerDatatype"} -> "&u64"
                      [] OTHER -> "str")
    /\ \A a \in RegistryNames \cap StringBackedTypes :
           \A b \in RegistryNames \cap ScalarTypes :
               get_ref_type(a).val # get_ref_type(b).val

\* The registry has been asked for the reference name of BooleanDatatype,
\* the one scalar whose reference name carries no "&".
C20_Witness ==
    /\ op = "get_ref_type"
    /\ ty = "BooleanDatatype"
    /\ res = Ok("bool")

\* C21: BooleanDatatype::validate accepts the texts "true" and "false" and
\* rejects every other text with BooleanParse.
C21_BooleanValidate ==
    (op = "validate" /\ ty = "BooleanDatatype") =>
        IF arg.text \in {TrueText, FalseText} THEN res = Ok(Unit)
        ELSE res = Err("BooleanParse")

\* C22: NCName::new_if_valid returns Ok, holding the input, exactly when no
\* position of the input is illegal, position 0 being illegal when its
\* character fails is_valid_start_char and a later one when its character
\* fails is_valid_char; the empty input is therefore accepted.  On rejection
\* the leftmost illegal position decides the error: NCNameIllegalFirstChar
\* at position 0, NCNameIllegalChar after it, whatever follows.  A leading
\* digit, hyphen or period is an illegal first character although the same
\* character is legal later.
C22_ExactAcceptance ==
    (op \in {"try_from", "from_str"} /\ ty = "NCName") =>
        LET s == arg.text
            illegal == {i \in 1..Len(s) :
                           IF i = 1 THEN ~is_valid_start_char(s[i])
                           ELSE ~is_valid_char(s[i])}
        IN  /\ res.ok <=> illegal = {}
            /\ res.ok => res.val = s /\ inst = Inst("NCName", s)
            /\ 1 \in illegal => res = Err("NCNameIllegalFirstChar")
            /\ (illegal # {} /\ 1 \notin illegal) =>
                   res = Err("NCNameIllegalChar")
            /\ s = <<>> => res.ok
            /\ (Len(s) > 0 /\ s[1] \in {"2", "-", "."}) =>
                   res = Err("NCNameIllegalFirstChar")
            /\ s = <<"a", "-", ".", "2">> => res.ok

\* The empty name has been accepted.
C22_Witness ==
    /\ op = "try_from"
    /\ ty = "NCName"
    /\ arg = Scalar("string", <<>>)
    /\ res = Ok(<<>>)
    /\ inst = Inst("NCName", <<>>)

\* C23: every character is_valid_start_char accepts, is_valid_char accepts
\* as well; and once a name or a token has been constructed from a text,
\* NCName::new_if_valid accepts every prefix of that text, the empty one
\* included.
C23_PrefixClosure ==
    /\ \A c \in RangeOf(LowerSeq) \cup RangeOf(UpperSeq) \cup RangeOf(DigitSeq)
                    \cup {p[1] : p \in OtherChars} :
           is_valid_start_char(c) => is_valid_char(c)
    /\ (/\ op \in {"try_from", "from_str"}
        /\ ty \in NameTypes \cup {"TokenDatatype"}
        /\ res.ok) =>
           \A k \in 0..Len(arg.text) :
               NCName_new_if_valid(Take(arg.text, k)) = Ok(Take(arg.text, k))

\* A name of four characters has been accepted, whose proper prefixes "",
\* "a", "a-" and "a-." are names too.
C23_Witness ==
    /\ op = "from_str"
    /\ ty = "NCName"
    /\ arg.text = <<"a", "-", ".", "2">>
    /\ res.ok
    /\ NCName_new_if_valid(<<"a", "-", ".">>).ok
    /\ NCName_new_if_valid(<<>>).ok

=============================================================================
